---- MODULE Spec2Model ----
(***************************************************************************)
(* Model of Sora2Get.py: the watch loop main_loop, its backoff arithmetic, *)
(* the state file helpers read_last_code / write_last_code, the SIGINT      *)
(* handler _sigint and the outcome of the two fetchers.                     *)
(*                                                                          *)
(* Program state: RUNNING, last, latest, backoff, the state file (disk)     *)
(* and the position of main_loop (pc).  The configuration read at import    *)
(* time (POLL_SECONDS, QIITA_ITEM_ID, --once, availability of playwright)   *)
(* is chosen in Init and never changes.  cycle, cur, prev, failures, notified,*)
(* kept, trace, flagAt, cycleAtFlag, lateSecs, apiResp and jitter are       *)
(* history variables: they record what the loop did; no action reads them   *)
(* to decide program state.                                                 *)
(*                                                                          *)
(* The code extractor (CODE_RE, STOPWORDS, extract_codes_from_text) and the *)
(* scan of a decoded response in get_latest_code_from_api are modelled on   *)
(* texts of characters and run as a machine of their own, SpecExtract;      *)
(* its variables xpc .. ret rest while main_loop is modelled.               *)
(***************************************************************************)
EXTENDS Integers, Sequences, FiniteSets, TLC

VARIABLES
    pollSeconds,   \* POLL_SECONDS
    itemId,        \* bool(QIITA_ITEM_ID)
    single_run,    \* main_loop's parameter (--once)
    playwright,    \* what playwright_available() returns
    RUNNING,       \* the module-level flag
    pc,            \* position of main_loop
    last,          \* main_loop's local `last`
    latest,        \* main_loop's local `latest`
    backoff,       \* main_loop's local `backoff`
    sleepLeft,     \* iterations left of `for _ in range(POLL_SECONDS)`
    disk,          \* content of last_code.json
    cycle,         \* number of loop iterations started
    cur,           \* what the current iteration found and did
    prev,          \* what the iteration before it found, and whether it notified
    failures,      \* number of iterations that ended in the loop-level handler
    notified,      \* the code of every notify call so far, in order
    kept,          \* code of the last notify call whose write_last_code returned
    trace,         \* calls made by the current iteration, in order
    flagAt,        \* pc at which _sigint ran ("none" before)
    cycleAtFlag,   \* value of cycle when _sigint ran
    lateSecs,      \* seconds slept in a wait after _sigint ran
    apiResp,       \* the response the current iteration's API call received
    jitter,        \* numerator of the jitter the handler drew (jitter = jitter/JitterDen)
    xpc,           \* position of the extractor run ("idle" while main_loop is modelled)
    text,          \* extract_codes_from_text's argument `text`
    min_digits,    \* its argument `min_digits` (REQUIRE_MIN_DIGITS)
    codes,         \* what extract_codes_from_text returned last
    cands,         \* start positions of the matches of CODE_RE it went through
    data,          \* the decoded API response, a list of comments
    ci,            \* index of the comment the loop of line 139 is at
    fi,            \* index of the field the loop of line 140 is at
    ret            \* what get_latest_code_from_api returned

vars_loop == <<pollSeconds, itemId, single_run, playwright, RUNNING, pc, last, latest,
               backoff, sleepLeft, disk, cycle, cur, prev, failures, notified, kept,
               trace, flagAt, cycleAtFlag, lateSecs, apiResp, jitter>>

xvars == <<xpc, text, min_digits, codes, cands, data, ci, fi, ret>>

vars == <<vars_loop, xvars>>

config == <<pollSeconds, itemId, single_run, playwright>>


(* ------------------------------ bounds -------------------------------- *)
MaxCycles == 3      \* loop iterations explored
MaxPoll == 2        \* small POLL_SECONDS values explored: -1 .. MaxPoll
JitterDen == 4      \* jitter is drawn from {0/JitterDen .. (JitterDen-1)/JitterDen}

(* --------------------------- program values --------------------------- *)
CAP == 300

None == "None"
Raised == "RAISE"
Codes == {"AB12CD", "XY98ZZ"}

(* last_code.json: absent, unreadable as a JSON object, or the object
   {"last_code": code} *)
FileMissing == [kind |-> "missing", last_code |-> None]
FileCorrupt == [kind |-> "corrupt", last_code |-> None]
JsonFile(code) == [kind |-> "json", last_code |-> code]
FileStates == {FileMissing, FileCorrupt} \cup {JsonFile(c) : c \in Codes}

PollValues == (-1 .. MaxPoll) \cup {CAP + 1}

Min(a, b) == IF a <= b THEN a ELSE b
Max(a, b) == IF a >= b THEN a ELSE b

(* json.loads(...).get("last_code"); None for a missing or unreadable file *)
read_last_code(file) == IF file.kind = "json" THEN file.last_code ELSE None

(* the file after a write_last_code(code) that returns: a full overwrite *)
write_last_code(code) == JsonFile(code)

(* the file after a write_last_code that raises: open() failed and the file
   is untouched, or it was truncated and the new text not completed *)
WriteFailures(file) == {file, FileCorrupt}

(* ---------------------------- the fetchers ---------------------------- *)
ApiErrorKinds == {"reqexc", "401", "429", "notok", "badjson"}

ApiResponses ==
    {[kind |-> k, code |-> None] : k \in ApiErrorKinds \cup {"baddata"}}
    \cup {[kind |-> "ok", code |-> c] : c \in Codes \cup {None}}

(* no API call made in this iteration yet, or the iteration is over *)
NoResponse == [kind |-> "none", code |-> None]

(* get_latest_code_from_api: None without an endpoint, on a transport error,
   on 401, 429 or another non-2xx status, and on a body that is not JSON;
   a decoded body that is no list of objects raises in the loop over it;
   otherwise the first code extracted from the comments, or None *)
get_latest_code_from_api_429Raises(hasApi, resp) ==
    IF ~hasApi THEN None
    ELSE IF resp.kind = "429" THEN Raised
    ELSE IF resp.kind \in ApiErrorKinds THEN None
    ELSE IF resp.kind = "baddata" THEN Raised
    ELSE resp.code

get_latest_code_from_api(hasApi, resp) ==
    IF ~hasApi THEN None
    ELSE IF resp.kind \in ApiErrorKinds THEN None
    ELSE IF resp.kind = "baddata" THEN Raised
    ELSE resp.code

(* get_latest_code_from_html: a code, None, or (from the RuntimeError
   branch, which catches nothing) an exception *)
HtmlOutcomes == Codes \cup {None, Raised}

(* -------------------------- loop decisions ---------------------------- *)
(* line 40: QIITA_ITEM_ID is the environment value, else the id derived from
   the comments URL, else "" *)
ResolveItemId(fromEnv, fromUrl) == fromEnv \/ fromUrl

(* the test left out: main_loop goes on without an item id *)
NoItemId_Ignored(id) == FALSE

(* line 305: `if not QIITA_ITEM_ID` *)
NoItemId(id) == ~id

(* the test left out: the loop goes on whatever RUNNING is *)
KeepRunning_Always(running) == TRUE

(* line 313: `while RUNNING` *)
KeepRunning(running) == running

(* the first test left out: the render fetcher is tried whenever it is
   available *)
NeedsHtml_Always(lat, avail) == avail

(* `if not latest and playwright_available()` *)
NeedsHtml(lat, avail) == lat = None /\ avail

(* the comparison left out: every found code counts as new *)
IsNew_Always(lat, lst) == TRUE

(* `if latest != last` *)
IsNew(lat, lst) == lat # lst

(* the assignment left out: last keeps its old value *)
AssignLast_Forgets(lat, lst) == lst

(* line 329: `last = latest` *)
AssignLast(lat, lst) == lat

(* line 330: `backoff = POLL_SECONDS` *)
ResetBackoff(poll, b) == poll

(* the test left out: the poll sleep never looks at RUNNING *)
SleepBreak_Never(running) == FALSE

(* `if not RUNNING: break` inside the poll sleep *)
SleepBreak(running) == ~running

(* range(POLL_SECONDS): no iteration for a value <= 0 *)
RangeLen(n) == Max(n, 0)

(* int(x) for x = num/den: truncation toward zero *)
IntTrunc(num, den) == IF num >= 0 THEN num \div den ELSE -((-num) \div den)

(* min(int(backoff * 2 + jitter), 300), jitter = j/JitterDen *)
NextBackoff(b, j) == Min(IntTrunc(b * 2 * JitterDen + j, JitterDen), CAP)

(* seconds that can remain of time.sleep(b) when the signal arrives *)
Remaining(b) == {x \in {0, 1, b} : x <= b}

(* ====================== the code extractor ============================ *)
(* A text is a sequence of characters; a character is a one-character
   string, except the accented letter, written "e_acute" / "E_ACUTE". *)
MaxPieces == 3      \* a text is built from at most MaxPieces pieces
MaxMinDigits == 2   \* min_digits ranges over 0 .. MaxMinDigits
MaxComments == 2    \* comments in a decoded API response

(* {6} in CODE_RE *)
CodeLen == 6

LowerLetters ==
    <<"a", "b", "c", "d", "e", "f", "g", "h", "i", "j", "k", "l", "m",
      "n", "o", "p", "q", "r", "s", "t", "u", "v", "w", "x", "y", "z">>
UpperLetters ==
    <<"A", "B", "C", "D", "E", "F", "G", "H", "I", "J", "K", "L", "M",
      "N", "O", "P", "Q", "R", "S", "T", "U", "V", "W", "X", "Y", "Z">>
Digits == {"0", "1", "2", "3", "4", "5", "6", "7", "8", "9"}
Letters == {LowerLetters[i] : i \in DOMAIN LowerLetters}
               \cup {UpperLetters[i] : i \in DOMAIN UpperLetters}
               \cup {"e_acute", "E_ACUTE"}

(* str.upper(), character by character *)
upper_char(ch) ==
    IF \E i \in DOMAIN LowerLetters : LowerLetters[i] = ch
    THEN UpperLetters[CHOOSE i \in DOMAIN LowerLetters : LowerLetters[i] = ch]
    ELSE IF ch = "e_acute" THEN "E_ACUTE"
    ELSE ch

RECURSIVE upper(_)
upper(t) == IF t = <<>> THEN <<>> ELSE <<upper_char(Head(t))>> \o upper(Tail(t))

(* the character class [A-Z0-9] *)
IsCodeChar(ch) == (\E i \in DOMAIN UpperLetters : UpperLetters[i] = ch) \/ ch \in Digits

(* \w without the underscore *)
IsWordChar_Alnum(ch) == ch \in Letters \/ ch \in Digits

(* \w of a str pattern: letters (accented ones too), digits and underscore *)
IsWordChar(ch) == ch \in Letters \/ ch \in Digits \/ ch = "_"

(* \b before position i of s: exactly one of s[i-1], s[i] is a word character *)
WordBoundary(s, i) ==
    LET before == i > 1 /\ IsWordChar(s[i - 1])
        after == i <= Len(s) /\ IsWordChar(s[i])
    IN  before # after

(* CODE_RE matches at position i of s *)
MatchAt(s, i) ==
    /\ i + CodeLen - 1 <= Len(s)
    /\ WordBoundary(s, i)
    /\ \A k \in i .. (i + CodeLen - 1) : IsCodeChar(s[k])
    /\ WordBoundary(s, i + CodeLen)

(* the start positions of the matches of CODE_RE in s, found from left to
   right, the search resuming right after each match *)
RECURSIVE FindFrom(_, _)
FindFrom(s, i) ==
    IF i > Len(s) THEN <<>>
    ELSE IF MatchAt(s, i) THEN <<i>> \o FindFrom(s, i + CodeLen)
    ELSE FindFrom(s, i + 1)

TokenAt(s, i) == SubSeq(s, i, i + CodeLen - 1)

RECURSIVE TokensAt(_, _)
TokensAt(s, ps) ==
    IF ps = <<>> THEN <<>> ELSE <<TokenAt(s, Head(ps))>> \o TokensAt(s, Tail(ps))

(* CODE_RE.findall(s): the matched strings, in order *)
findall(s) == TokensAt(s, FindFrom(s, 1))

STOPWORDS == {
    <<"C", "E", "N", "T", "E", "R">>,
    <<"H", "E", "I", "G", "H", "T">>,
    <<"B", "O", "R", "D", "E", "R">>,
    <<"M", "A", "R", "G", "I", "N">>,
    <<"S", "H", "R", "I", "N", "K">>,
    <<"R", "A", "D", "I", "U", "S">>,
    <<"S", "E", "L", "E", "C", "T">>,
    <<"C", "O", "L", "U", "M", "N">>,
    <<"I", "N", "L", "I", "N", "E">>,
    <<"B", "U", "T", "T", "O", "N">>,
    <<"A", "C", "T", "I", "V", "E">>,
    <<"H", "I", "D", "D", "E", "N">>,
    <<"N", "U", "M", "B", "E", "R">>,
    <<"N", "O", "R", "M", "A", "L">>,
    <<"W", "E", "B", "K", "I", "T">>
}

(* `"U003" in up or "U002" in up` *)
Contains(s, w) == \E i \in 1 .. (Len(s) - Len(w) + 1) : SubSeq(s, i, i + Len(w) - 1) = w
HasMarker(s) == Contains(s, <<"U", "0", "0", "3">>) \/ Contains(s, <<"U", "0", "0", "2">>)

(* sum(ch.isdigit() for ch in m) *)
DigitCount(m) == Cardinality({k \in 1 .. Len(m) : m[k] \in Digits})

(* the threshold left out: any number of digits will do *)
DigitsOk_Any(m, d) == TRUE

(* line 92: `sum(ch.isdigit() for ch in m) >= min_digits` *)
DigitsOk(m, d) == DigitCount(m) >= d

(* the start positions of the candidates of a text: none when a marker is
   present (lines 86-87), else those of the matches in the upper-cased text *)
Candidates(t) == IF HasMarker(upper(t)) THEN <<>> ELSE FindFrom(upper(t), 1)

(* extract_codes_from_text(text, min_digits) *)
extract_codes_from_text(t, d) ==
    IF HasMarker(upper(t)) THEN <<>>
    ELSE SelectSeq(findall(upper(t)), LAMBDA m : m \notin STOPWORDS /\ DigitsOk(m, d))

(* ----------------------------- the inputs ----------------------------- *)
Pieces == {
    <<"A", "B", "1", "2", "C", "D">>,
    <<"x", "y", "9", "8", "z", "z">>,
    <<"H", "i", "d", "d", "e", "n">>,
    <<"A", "B", "C", "D", "E", "F">>,
    <<"7">>,
    <<" ">>,
    <<"_">>,
    <<"-">>,
    <<"e_acute">>,
    <<"u", "0", "0", "3", "c">>,
    <<"u", "0", "0", "2", "6">>
}

RECURSIVE Flatten(_)
Flatten(ps) == IF ps = <<>> THEN <<>> ELSE Head(ps) \o Flatten(Tail(ps))

Texts == {Flatten(ps) : ps \in UNION {[1 .. n -> Pieces] : n \in 0 .. MaxPieces}}

MinDigitValues == 0 .. MaxMinDigits

(* the value of a comment field: missing, null or empty; a stop word only;
   one code; two codes *)
FieldTexts == {
    <<>>,
    <<"H", "i", "d", "d", "e", "n">>,
    <<"A", "B", "1", "2", "C", "D">>,
    <<"x", "y", "9", "8", "z", "z", " ", "A", "B", "1", "2", "C", "D">>
}

Comments == [body : FieldTexts, rendered_body : FieldTexts]

Responses == UNION {[1 .. n -> Comments] : n \in 0 .. MaxComments}

(* get_latest_code_from_api returning None *)
NoCode == <<>>

(* the fields in the other order *)
Fields_Reversed == <<"rendered_body", "body">>

(* line 140: `for field in ("body", "rendered_body")` *)
Fields == <<"body", "rendered_body">>

(* ----------------------------- history -------------------------------- *)
(* the record of an iteration: what it found and did, and the values of
   last, the state file, backoff and the number of notify calls when it began *)
NewCycle(lst, file, b, sent) ==
    [found |-> None, notified |-> FALSE, persisted |-> FALSE, failed |-> FALSE,
     last0 |-> lst, disk0 |-> file, backoff0 |-> b, sent0 |-> sent]

NoPrev == [found |-> None, notified |-> FALSE]

SetCur(field, val) == [cur EXCEPT ![field] = val]

(* ------------------------------- Init --------------------------------- *)
(* main_loop is entered; its locals are not assigned yet (last, latest are
   shown as None and backoff, sleepLeft as 0 until Start assigns them) *)
Init ==
    /\ pollSeconds \in PollValues
    /\ itemId \in {ResolveItemId(e, u) : e \in BOOLEAN, u \in BOOLEAN}
    /\ single_run \in BOOLEAN
    /\ playwright \in BOOLEAN
    /\ disk \in FileStates
    /\ RUNNING = TRUE
    /\ pc = "start"
    /\ last = None
    /\ latest = None
    /\ backoff = 0
    /\ sleepLeft = 0
    /\ cycle = 0
    /\ cur = NewCycle(None, disk, 0, 0)
    /\ prev = NoPrev
    /\ failures = 0
    /\ notified = <<>>
    /\ kept = None
    /\ trace = <<>>
    /\ flagAt = "none"
    /\ cycleAtFlag = 0
    /\ lateSecs = 0
    /\ apiResp = NoResponse
    /\ jitter = 0
    /\ xpc = "idle"
    /\ text = <<>>
    /\ min_digits = 0
    /\ codes = <<>>
    /\ cands = <<>>
    /\ data = <<>>
    /\ ci = 1
    /\ fi = 1
    /\ ret = NoCode

(* ------------------------------ actions ------------------------------- *)
(* lines 305-312: no item id -> return; else read the state file, set backoff *)
Start ==
    /\ pc = "start"
    /\ IF NoItemId(itemId)
       THEN /\ pc' = "stopped"
            /\ UNCHANGED <<last, backoff, kept>>
       ELSE /\ last' = read_last_code(disk)
            /\ kept' = read_last_code(disk)
            /\ backoff' = pollSeconds
            /\ pc' = "loop_test"
    /\ UNCHANGED <<config, xvars, apiResp, jitter, RUNNING, latest, sleepLeft, disk, cycle, cur, prev,
                   failures, notified, trace, flagAt, cycleAtFlag, lateSecs>>

(* line 313 `while RUNNING:` and line 315 `latest = None` *)
LoopTest ==
    /\ pc = "loop_test"
    /\ IF KeepRunning(RUNNING)
       THEN /\ cycle < MaxCycles
            /\ cycle' = cycle + 1
            /\ prev' = [found |-> cur.found, notified |-> cur.notified]
            /\ cur' = NewCycle(last, disk, backoff, Len(notified))
            /\ trace' = <<>>
            /\ latest' = None
            /\ pc' = "api"
       ELSE /\ pc' = "stopped"
            /\ UNCHANGED <<cycle, cur, prev, trace, latest>>
    /\ UNCHANGED <<config, xvars, apiResp, jitter, RUNNING, last, backoff, sleepLeft, disk, failures,
                   notified, kept, flagAt, cycleAtFlag, lateSecs>>

(* line 317, and the test of line 320 *)
ApiFetch ==
    /\ pc = "api"
    /\ \E resp \in ApiResponses :
         LET r == get_latest_code_from_api(itemId, resp) IN
         /\ apiResp' = resp
         /\ IF r = Raised
            THEN /\ pc' = "handler"
                 /\ cur' = SetCur("failed", TRUE)
                 /\ failures' = failures + 1
                 /\ UNCHANGED latest
            ELSE /\ latest' = r
                 /\ pc' = IF NeedsHtml(r, playwright) THEN "html" ELSE "compare"
                 /\ UNCHANGED <<cur, failures>>
    /\ trace' = Append(trace, "api")
    /\ UNCHANGED <<config, xvars, jitter, RUNNING, last, backoff, sleepLeft, disk, cycle, prev,
                   notified, kept, flagAt, cycleAtFlag, lateSecs>>

(* line 321 *)
HtmlFetch ==
    /\ pc = "html"
    /\ \E r \in HtmlOutcomes :
         IF r = Raised
         THEN /\ pc' = "handler"
              /\ cur' = SetCur("failed", TRUE)
              /\ failures' = failures + 1
              /\ UNCHANGED latest
         ELSE /\ latest' = r
              /\ pc' = "compare"
              /\ UNCHANGED <<cur, failures>>
    /\ trace' = Append(trace, "html")
    /\ UNCHANGED <<config, xvars, apiResp, jitter, RUNNING, last, backoff, sleepLeft, disk, cycle, prev,
                   notified, kept, flagAt, cycleAtFlag, lateSecs>>

(* lines 323-326 and 331-334: the comparison step *)
Compare ==
    /\ pc = "compare"
    /\ cur' = SetCur("found", latest)
    /\ pc' = IF latest # None /\ IsNew(latest, last) THEN "notify" ELSE "post"
    /\ UNCHANGED <<config, xvars, apiResp, jitter, failures, RUNNING, last, latest, backoff, sleepLeft, disk, cycle,
                   prev, notified, kept, trace, flagAt, cycleAtFlag, lateSecs>>

(* line 327: notify(latest); every step of notify swallows its exceptions *)
Notify ==
    /\ pc = "notify"
    /\ cur' = SetCur("notified", TRUE)
    /\ notified' = Append(notified, latest)
    /\ trace' = Append(trace, "notify")
    /\ pc' = "write"
    /\ UNCHANGED <<config, xvars, apiResp, jitter, failures, RUNNING, last, latest, backoff, sleepLeft, disk, cycle,
                   prev, kept, flagAt, cycleAtFlag, lateSecs>>

(* lines 328-330: write_last_code(latest); last = latest; backoff = POLL_SECONDS *)
WriteOk ==
    /\ pc = "write"
    /\ disk' = write_last_code(latest)
    /\ last' = AssignLast(latest, last)
    /\ backoff' = ResetBackoff(pollSeconds, backoff)
    /\ cur' = SetCur("persisted", TRUE)
    /\ kept' = latest
    /\ trace' = Append(trace, "write")
    /\ pc' = "post"
    /\ UNCHANGED <<config, xvars, apiResp, jitter, failures, RUNNING, latest, sleepLeft, cycle, prev, notified,
                   flagAt, cycleAtFlag, lateSecs>>

(* line 328 raising (OSError from write_text): lines 329-330 are skipped *)
WriteRaise ==
    /\ pc = "write"
    /\ disk' \in WriteFailures(disk)
    /\ cur' = SetCur("failed", TRUE)
    /\ failures' = failures + 1
    /\ trace' = Append(trace, "write")
    /\ pc' = "handler"
    /\ UNCHANGED <<config, xvars, apiResp, jitter, RUNNING, last, latest, backoff, sleepLeft, cycle, prev,
                   notified, kept, flagAt, cycleAtFlag, lateSecs>>

(* lines 336-340: `if single_run: break`, else enter the poll sleep; the
   iteration's response is dead from here on *)
Post ==
    /\ pc = "post"
    /\ IF single_run
       THEN /\ pc' = "stopped"
            /\ UNCHANGED sleepLeft
       ELSE /\ sleepLeft' = RangeLen(pollSeconds)
            /\ pc' = "sleep_check"
    /\ apiResp' = NoResponse
    /\ UNCHANGED <<config, xvars, jitter, failures, RUNNING, last, latest, backoff, disk, cycle, cur, prev,
                   notified, kept, trace, flagAt, cycleAtFlag, lateSecs>>

(* lines 340-342: next iteration of the for loop and its RUNNING test;
   the loop counter is dead once the loop is left *)
SleepCheck ==
    /\ pc = "sleep_check"
    /\ IF sleepLeft = 0 \/ SleepBreak(RUNNING)
       THEN /\ pc' = "loop_test"
            /\ sleepLeft' = 0
       ELSE /\ pc' = "sleeping"
            /\ UNCHANGED sleepLeft
    /\ UNCHANGED <<config, xvars, apiResp, jitter, failures, RUNNING, last, latest, backoff, disk, cycle, cur, prev,
                   notified, kept, trace, flagAt, cycleAtFlag, lateSecs>>

(* line 343: time.sleep(1); the sleep is resumed after a signal handler returns *)
SleepTick ==
    /\ pc = "sleeping"
    /\ sleepLeft' = sleepLeft - 1
    /\ lateSecs' = IF RUNNING THEN lateSecs ELSE lateSecs + 1
    /\ pc' = "sleep_check"
    /\ UNCHANGED <<config, xvars, apiResp, jitter, failures, RUNNING, last, latest, backoff, disk, cycle, cur, prev,
                   notified, kept, trace, flagAt, cycleAtFlag>>

(* lines 345-349: the loop-level handler computes the new backoff; the
   iteration's response is dead from here on *)
Handler ==
    /\ pc = "handler"
    /\ \E j \in 0 .. (JitterDen - 1) :
         /\ jitter' = j
         /\ backoff' = NextBackoff(backoff, j)
    /\ pc' = "backoff_sleep"
    /\ apiResp' = NoResponse
    /\ UNCHANGED <<config, xvars, failures, RUNNING, last, latest, sleepLeft, disk, cycle, cur, prev,
                   notified, kept, trace, flagAt, cycleAtFlag, lateSecs>>

(* line 350: time.sleep(backoff), one uninterrupted sleep; a negative
   argument raises ValueError inside the handler, which leaves main_loop;
   the jitter is dead from here on *)
BackoffSleep ==
    /\ pc = "backoff_sleep"
    /\ IF backoff < 0
       THEN /\ pc' = "crashed"
            /\ UNCHANGED lateSecs
       ELSE /\ pc' = "loop_test"
            /\ IF RUNNING
               THEN UNCHANGED lateSecs
               ELSE \E r \in Remaining(backoff) :
                        lateSecs' = IF flagAt = "backoff_sleep" THEN lateSecs + r
                                    ELSE lateSecs + backoff
    /\ jitter' = 0
    /\ UNCHANGED <<config, xvars, apiResp, failures, RUNNING, last, latest, backoff, sleepLeft, disk, cycle,
                   cur, prev, notified, kept, trace, flagAt, cycleAtFlag>>

(* lines 296-299: _sigint, run between two steps of main_loop *)
Sigint ==
    /\ pc \notin {"start", "stopped", "crashed"}
    /\ RUNNING
    /\ RUNNING' = FALSE
    /\ flagAt' = pc
    /\ cycleAtFlag' = cycle
    /\ UNCHANGED <<config, xvars, apiResp, jitter, failures, pc, last, latest, backoff, sleepLeft, disk, cycle, cur,
                   prev, notified, kept, trace, lateSecs>>

Next ==
    \/ Start
    \/ LoopTest
    \/ ApiFetch
    \/ HtmlFetch
    \/ Compare
    \/ Notify
    \/ WriteOk
    \/ WriteRaise
    \/ Post
    \/ SleepCheck
    \/ SleepTick
    \/ Handler
    \/ BackoffSleep
    \/ Sigint

Spec == Init /\ [][Next]_vars

(* ================= the extractor as a machine of its own ============== *)
(* ------------------------------- Init --------------------------------- *)
(* main_loop is not entered *)
LoopIdle ==
    /\ pollSeconds = 0
    /\ itemId = TRUE
    /\ single_run = TRUE
    /\ playwright = FALSE
    /\ disk = FileMissing
    /\ RUNNING = TRUE
    /\ pc = "start"
    /\ last = None
    /\ latest = None
    /\ backoff = 0
    /\ sleepLeft = 0
    /\ cycle = 0
    /\ cur = NewCycle(None, FileMissing, 0, 0)
    /\ prev = NoPrev
    /\ failures = 0
    /\ notified = <<>>
    /\ kept = None
    /\ trace = <<>>
    /\ flagAt = "none"
    /\ cycleAtFlag = 0
    /\ lateSecs = 0
    /\ apiResp = NoResponse
    /\ jitter = 0

(* a call of extract_codes_from_text(text, min_digits), or the loop of
   get_latest_code_from_api over a decoded response *)
InitExtract ==
    /\ LoopIdle
    /\ min_digits \in MinDigitValues
    /\ \/ /\ xpc = "extract"
          /\ text \in Texts
          /\ data = <<>>
       \/ /\ xpc = "scan"
          /\ text = <<>>
          /\ data \in Responses
    /\ codes = <<>>
    /\ cands = <<>>
    /\ ci = 1
    /\ fi = 1
    /\ ret = NoCode

(* ------------------------------ actions ------------------------------- *)
(* lines 83-94 *)
ExtractCall ==
    /\ xpc = "extract"
    /\ cands' = Candidates(text)
    /\ codes' = extract_codes_from_text(text, min_digits)
    /\ xpc' = "extracted"
    /\ UNCHANGED <<vars_loop, text, min_digits, data, ci, fi, ret>>

(* lines 139-145: one (comment, field) pair of the loop, or its end *)
ScanStep ==
    /\ xpc = "scan"
    /\ IF ci > Len(data)
       THEN /\ ret' = NoCode
            /\ xpc' = "returned"
            /\ UNCHANGED <<ci, fi, codes>>
       ELSE LET txt == data[ci][Fields[fi]]
                cs == extract_codes_from_text(txt, min_digits)
            IN  /\ codes' = cs
                /\ IF cs # <<>>
                   THEN /\ ret' = cs[1]
                        /\ xpc' = "returned"
                        /\ UNCHANGED <<ci, fi>>
                   ELSE /\ IF fi < Len(Fields)
                           THEN fi' = fi + 1 /\ UNCHANGED ci
                           ELSE fi' = 1 /\ ci' = ci + 1
                        /\ UNCHANGED <<ret, xpc>>
    /\ UNCHANGED <<vars_loop, text, min_digits, data, cands>>

NextExtract ==
    \/ ExtractCall
    \/ ScanStep

SpecExtract == InitExtract /\ [][NextExtract]_vars

(* ============================== claims ================================ *)
(* where an iteration has been left: normally, or through the handler *)
CycleCompleted == pc = "post"
CycleFailed == pc = "backoff_sleep"
CycleLeft == CycleCompleted \/ CycleFailed

(* the code notified last before the current iteration began; before any
   notify call, the persisted code read at start *)
PriorNotified == IF cur.sent0 = 0 THEN cur.last0 ELSE notified[cur.sent0]

NotifyCalls == Len(SelectSeq(trace, LAMBDA e : e = "notify"))

WaitingPcs == {"sleep_check", "sleeping", "backoff_sleep"}

InCyclePcs == {"api", "html", "compare", "notify", "write", "post", "handler"}

(* C1 as stated, on runs in which no iteration ended in an error: no code
   value is passed to notify in two different iterations, also when another
   code was notified in between. *)
C1_OncePerLifetime ==
    failures = 0 =>
        \A i, j \in 1 .. Len(notified) : i # j => notified[i] # notified[j]

(* C1 amended: a code is passed to notify only when it differs from the code
   of the most recent notify call whose write_last_code returned, or, before
   any such call, from the persisted code read at start. *)
C1_DiffersFromLastKept ==
    pc = "write" => notified[Len(notified)] # kept

(* C1 witness: without any error, a third notify call has just delivered the
   code of the first one again, another code having been notified in between. *)
C1_Witness ==
    /\ pc = "write"
    /\ failures = 0
    /\ Len(notified) = 3
    /\ notified[3] = notified[1]
    /\ notified[2] # notified[1]
    /\ kept = notified[2]

(* C2: two consecutive iterations that find the same code never both call
   notify, whatever the outcome of the first one. *)
C2_Idempotent ==
    ~(/\ cycle >= 2
      /\ prev.found # None
      /\ cur.found = prev.found
      /\ prev.notified
      /\ cur.notified)

(* C3: an iteration that found a code different from the last notified code
   (or found one when none existed) has, when it is left, called notify
   exactly once, written the state file after that call, and left the state
   file holding that code and backoff at POLL_SECONDS; and an iteration that
   found a code notifies exactly when the code differs from the last
   notified one. *)
C3_NotifyThenPersist ==
    (CycleLeft /\ cur.found # None) =>
        /\ cur.notified <=> (cur.found # PriorNotified)
        /\ cur.found # PriorNotified =>
              /\ NotifyCalls = 1
              /\ trace[Len(trace)] = "write"
              /\ trace[Len(trace) - 1] = "notify"
              /\ read_last_code(disk) = cur.found
              /\ backoff = pollSeconds

(* C4: an iteration that completes having found no code, or the code that
   last already holds, has called notify zero times and has left the state
   file, last and backoff as they were when it began. *)
C4_NoChangeWithoutNewCode ==
    (CycleCompleted /\ (cur.found = None \/ cur.found = cur.last0)) =>
        /\ NotifyCalls = 0
        /\ Len(notified) = cur.sent0
        /\ disk = cur.disk0
        /\ last = cur.last0
        /\ backoff = cur.backoff0

(* C4 witness: the first iteration after start has completed having found
   the code that was read from the state file, after the html fetcher ran. *)
C4_Witness ==
    /\ CycleCompleted
    /\ cycle = 1
    /\ cur.found \in Codes
    /\ cur.found = cur.last0
    /\ cur.found = read_last_code(cur.disk0)
    /\ trace = <<"api", "html">>

(* C5: at every iteration boundary, after a completed and after a failed
   iteration, the persisted code, once set, is the code most recently passed
   to notify. *)
C5_PersistedIsLastNotified ==
    (CycleLeft /\ notified # <<>> /\ read_last_code(disk) # None) =>
        read_last_code(disk) = notified[Len(notified)]

(* C6: after every iteration that completes without an escaping error,
   backoff equals POLL_SECONDS. *)
C6_ResetAfterSuccess ==
    CycleCompleted => backoff = pollSeconds

(* C7: once assigned, backoff never exceeds the cap of 300 seconds. *)
C7_BackoffWithinCap ==
    pc # "start" => backoff <= CAP

(* C8, for the base poll intervals time.sleep accepts (POLL_SECONDS >= 0):
   the loop-level handler never lowers backoff, so backoff is non-decreasing
   over consecutive failed iterations, whatever the jitter. *)
C8_HandlerNeverLowers ==
    [][(pc = "handler" /\ pollSeconds >= 0) => backoff' >= backoff]_vars

(* C9: when RUNNING is cleared during a wait (the poll sleep or the sleep
   after a failed iteration), at most one second of sleep follows and no new
   iteration starts. *)
C9_StopsWithinOneSecond ==
    flagAt \in WaitingPcs => (lateSecs <= 1 /\ cycle = cycleAtFlag)

(* C9 amended: when RUNNING is cleared during the poll sleep, at most one
   second of sleep follows; when it is cleared during the sleep after a
   failed iteration, that one time.sleep(backoff) is finished first, at most
   backoff (never more than 300) seconds; in both cases no new iteration
   starts. *)
C9_StopsAfterCurrentSleep ==
    /\ flagAt \in {"sleep_check", "sleeping"} => lateSecs <= 1
    /\ flagAt = "backoff_sleep" => (lateSecs <= Max(backoff, 0) /\ lateSecs <= CAP)
    /\ flagAt \in WaitingPcs => cycle = cycleAtFlag

(* C9 witness: RUNNING was cleared during a one-second poll sleep, that
   second was slept to its end, and the loop has stopped. *)
C9_Witness ==
    /\ pc = "stopped"
    /\ flagAt = "sleeping"
    /\ lateSecs = 1
    /\ cycle = cycleAtFlag

(* C10: started with --once and a resolved item id, main_loop never starts
   a second iteration, and has run exactly one when it stops. *)
C10_SingleRunOneCycle ==
    (single_run /\ itemId) =>
        /\ cycle <= 1
        /\ (pc = "stopped" /\ flagAt = "none") => cycle = 1

(* C11: with a resolved item id and without --once, an exception escaping
   the fetch steps leaves the state file as it was, no exception ever leaves
   main_loop, and main_loop stops only after RUNNING was cleared. *)
C11_CaughtNeverLeaves ==
    (itemId /\ ~single_run) =>
        /\ (CycleFailed /\ ~cur.notified) => disk = cur.disk0
        /\ pc # "crashed"
        /\ pc = "stopped" => ~RUNNING

(* C12: without a resolved item id main_loop starts no iteration, makes no
   fetch and no notify call, and neither reads nor writes the state file. *)
C12_NoItemIdNoWork ==
    ~itemId =>
        /\ pc \in {"start", "stopped"}
        /\ cycle = 0
        /\ trace = <<>>
        /\ notified = <<>>
        /\ last = None
        /\ disk = cur.disk0

(* C12 witness: main_loop has returned without an item id, the state file
   holding a code it never read. *)
C12_Witness ==
    /\ ~itemId
    /\ pc = "stopped"
    /\ read_last_code(disk) \in Codes
    /\ last = None

(* C19: when an iteration begins, last equals what read_last_code would
   return from the state file. *)
C19_LastMatchesFile ==
    cycle >= 1 => cur.last0 = read_last_code(cur.disk0)

(* C20: a signal that arrives inside an iteration only clears RUNNING; the
   iteration goes on, so a notify call is followed by the write_last_code
   call for the same code before main_loop is left, and no further
   iteration starts. *)
C20_CycleNotPreempted ==
    /\ (flagAt \in InCyclePcs) => cycle = cycleAtFlag
    /\ (cur.notified /\ pc # "write") =>
          /\ NotifyCalls = 1
          /\ trace[Len(trace)] = "write"
          /\ trace[Len(trace) - 1] = "notify"
          /\ (cur.persisted => read_last_code(disk) = notified[Len(notified)])

(* C20 witness: the signal arrived right before the notify call; the call and
   the write were made all the same and main_loop has then stopped. *)
C20_Witness ==
    /\ pc = "stopped"
    /\ flagAt = "notify"
    /\ cur.notified
    /\ cur.persisted
    /\ trace[Len(trace)] = "write"
    /\ cycle = cycleAtFlag

(* what the API call of the current iteration returned to the loop *)
ApiResult == get_latest_code_from_api(itemId, apiResp)

HtmlCalls == Len(SelectSeq(trace, LAMBDA e : e = "html"))
ApiCalls == Len(SelectSeq(trace, LAMBDA e : e = "api"))

(* C13: a transport error, a 401, a 429, another non-2xx status or a body
   that is not JSON never takes the iteration to the loop-level handler, and
   it reaches the comparison as "no code"; without the render fetcher the
   iteration then ends normally with nothing found, no notify call, and
   backoff, last and the state file as they were when it began. *)
C13_ApiErrorIsNoCode ==
    apiResp.kind \in ApiErrorKinds =>
        /\ ApiResult = None
        /\ pc # "handler" \/ trace # <<"api">>
        /\ ~playwright =>
             /\ pc \in {"compare", "post"}
             /\ latest = None
             /\ trace = <<"api">>
             /\ ~cur.failed
             /\ pc = "post" =>
                  /\ cur.found = None
                  /\ NotifyCalls = 0
                  /\ backoff = cur.backoff0
                  /\ last = cur.last0
                  /\ disk = cur.disk0

C13_Witness ==
    /\ pc = "post"
    /\ apiResp.kind = "429"
    /\ ~playwright
    /\ cur.last0 \in Codes
    /\ cur.backoff0 > pollSeconds
    /\ backoff = cur.backoff0

(* C14 as stated, for a positive base interval: the backoff the handler
   sets, and sleeps, is min(2*b + jitter, 300) for the backoff b the
   iteration had and the jitter the handler drew. *)
C14_DoubledPlusJitter ==
    (pc = "backoff_sleep" /\ pollSeconds >= 1) =>
        backoff * JitterDen = Min(2 * cur.backoff0 * JitterDen + jitter, CAP * JitterDen)

(* C16: in every iteration the API fetcher is called first and once; the
   render fetcher is called, at most once and right after the API call,
   exactly when the API call returned no code and playwright is available. *)
C16_ApiThenRender ==
    pc \in {"compare", "notify", "write", "post", "handler"} =>
        /\ trace[1] = "api"
        /\ ApiCalls = 1
        /\ HtmlCalls <= 1
        /\ HtmlCalls = 1 <=> NeedsHtml(ApiResult, playwright)
        /\ HtmlCalls = 1 => trace[2] = "html"
        /\ ApiResult \in Codes => HtmlCalls = 0

C16_Witness ==
    /\ pc = "post"
    /\ trace = <<"api", "html", "notify", "write">>
    /\ apiResp.kind = "ok"
    /\ ApiResult = None
    /\ playwright

(* ------------------------- extractor claims --------------------------- *)
(* the tokens cs[k], cs[k+1], ... occur in s one after the other, without
   overlap, from position `from` on *)
RECURSIVE OccurInOrder(_, _, _, _)
OccurInOrder(cs, k, s, from) ==
    \/ k > Len(cs)
    \/ \E p \in from .. (Len(s) - Len(cs[k]) + 1) :
         /\ SubSeq(s, p, p + Len(cs[k]) - 1) = cs[k]
         /\ OccurInOrder(cs, k + 1, s, p + Len(cs[k]))

(* C15: every token extract_codes_from_text(text, min_digits) returns is six
   characters of [A-Z0-9], is no stop word and has at least min_digits
   digits; the tokens are in the order in which they occur in the
   (upper-cased) text. *)
C15_ExtractedAreCodes ==
    xpc = "extracted" =>
        /\ \A k \in 1 .. Len(codes) :
             /\ Len(codes[k]) = CodeLen
             /\ \A n \in 1 .. Len(codes[k]) : IsCodeChar(codes[k][n])
             /\ codes[k] \notin STOPWORDS
             /\ DigitCount(codes[k]) >= min_digits
        /\ OccurInOrder(codes, 1, upper(text), 1)

C15_Witness ==
    /\ xpc = "extracted"
    /\ min_digits >= 1
    /\ Len(cands) = 2
    /\ Len(codes) = 1
    /\ cands[1] = 1
    /\ codes[1] = TokenAt(upper(text), cands[2])

(* the (comment, field) pairs of a response in the order of the claim:
   pair 2i-1 is the body of comment i, pair 2i its rendered_body *)
PairText(d, k) == IF k % 2 = 1 THEN d[(k + 1) \div 2].body ELSE d[k \div 2].rendered_body

NonEmptyPairs(d, n) == {k \in 1 .. (2 * Len(d)) : extract_codes_from_text(PairText(d, k), n) # <<>>}

(* C17: for a decoded response, get_latest_code_from_api returns the first
   code extracted from the first (comment, field) pair, in list order and
   body before rendered_body, whose extraction is not empty, and None
   exactly when every extraction is empty. *)
C17_FirstNonEmptyPair ==
    xpc = "returned" =>
        LET hits == NonEmptyPairs(data, min_digits)
        IN  IF hits = {}
            THEN ret = NoCode
            ELSE LET k == CHOOSE h \in hits : \A g \in hits : h <= g
                 IN  /\ ret = extract_codes_from_text(PairText(data, k), min_digits)[1]
                     /\ ret # NoCode

C17_Witness ==
    /\ xpc = "returned"
    /\ Len(data) = 2
    /\ 1 \notin NonEmptyPairs(data, min_digits)
    /\ {2, 3} \subseteq NonEmptyPairs(data, min_digits)
    /\ Len(extract_codes_from_text(data[1].rendered_body, min_digits)) = 2
    /\ ret = extract_codes_from_text(data[1].rendered_body, min_digits)[1]
    /\ ret # extract_codes_from_text(data[2].body, min_digits)[1]

(* six characters of [A-Z0-9] at position i of s *)
SixCodeChars(s, i) ==
    /\ i >= 1
    /\ i + CodeLen - 1 <= Len(s)
    /\ \A k \in i .. (i + CodeLen - 1) : IsCodeChar(s[k])

IsLetterOrDigit(ch) == ch \in Letters \/ ch \in Digits

(* C18 as stated: in a text without the markers the candidates are exactly
   the runs of six characters of [A-Z0-9] of the upper-cased text that have,
   on each side, the start or end of the text or a character that is no
   letter and no digit; an underscore is such a character. *)
C18_IsolatedByNonAlphanumeric ==
    (xpc = "extracted" /\ ~HasMarker(upper(text))) =>
        LET up == upper(text)
        IN  {cands[k] : k \in 1 .. Len(cands)} =
                {i \in 1 .. Len(up) :
                    /\ SixCodeChars(up, i)
                    /\ i = 1 \/ ~IsLetterOrDigit(up[i - 1])
                    /\ i + CodeLen > Len(up) \/ ~IsLetterOrDigit(up[i + CodeLen])}

(* C18 amended: the same with the underscore counted among the characters
   that are no boundary: the neighbour on each side is the start or end of
   the text or a character that is no letter, no digit and no underscore. *)
C18_IsolatedByNonWord ==
    (xpc = "extracted" /\ ~HasMarker(upper(text))) =>
        LET up == upper(text)
        IN  {cands[k] : k \in 1 .. Len(cands)} =
                {i \in 1 .. Len(up) :
                    /\ SixCodeChars(up, i)
                    /\ i = 1 \/ ~(IsLetterOrDigit(up[i - 1]) \/ up[i - 1] = "_")
                    /\ i + CodeLen > Len(up)
                          \/ ~(IsLetterOrDigit(up[i + CodeLen]) \/ up[i + CodeLen] = "_")}

C18_Witness ==
    /\ xpc = "extracted"
    /\ ~HasMarker(upper(text))
    /\ Len(text) = CodeLen + 1
    /\ text[1] = "_"
    /\ SixCodeChars(upper(text), 2)
    /\ cands = <<>>

====
